---- MODULE Spec2Model ----
(***************************************************************************)
(* NomadPal backend: the cities listing routes, the pagination helper and  *)
(* the Python prediction service client.                                   *)
(*                                                                         *)
(* One request is handled per step: a handler action reads the request     *)
(* inputs (query string, caller, outcomes of the external calls), runs the *)
(* whole handler and leaves the response in `resp`.                        *)
(*                                                                         *)
(* The repository holds two cities routers.  The one with the jobs routes  *)
(* in front of it (unnamed/part_002) queries the record store and merges   *)
(* predictions into the page ("merge" variant); the one followed by the    *)
(* auth routes (unnamed/part_003) asks the prediction service first and    *)
(* falls back to the record store ("direct" variant).                      *)
(***************************************************************************)
EXTENDS Integers, Sequences, FiniteSets, TLC

VARIABLES req, resp, saved_cities, call, returned, boot, db, handlers

vars == <<req, resp, saved_cities, call, returned, boot, db, handlers>>

---------------------------------------------------------------------------
(* Bounds of the model *)

MaxPageInput == 2
MaxLimitInput == 2
MaxScore == 2
MaxPredictions == 2

---------------------------------------------------------------------------
(* Small arithmetic *)

Max(a, b) == IF a >= b THEN a ELSE b

Min(a, b) == IF a <= b THEN a ELSE b

\* Math.ceil(a / b) for a >= 0 and b # 0
MathCeilDiv(a, b) ==
  IF b > 0 THEN (a + b - 1) \div b
  ELSE 0 - (a \div (0 - b))

---------------------------------------------------------------------------
(* Query-string values.  A raw value is missing (undefined), a string that *)
(* does not start with a number, or a decimal integer.                     *)

Missing == [k |-> "missing", v |-> 0]

NonNumeric == [k |-> "str", v |-> 0]

Num(n) == [k |-> "int", v |-> n]

\* a destructuring default: `const { page = 1 } = req.query`
WithDefault(raw, d) == IF raw.k = "missing" THEN Num(d) ELSE raw

\* parseInt(x): NaN for undefined and for non-numeric text
ParseInt(raw) ==
  IF raw.k = "int" THEN [nan |-> FALSE, v |-> raw.v] ELSE [nan |-> TRUE, v |-> 0]

\* `parseInt(x) || d`: NaN and 0 are falsy
OrElse(p, d) == IF p.nan \/ p.v = 0 THEN d ELSE p.v

\* a query-string value is truthy unless it is missing
Truthy(raw) == raw.k # "missing"

---------------------------------------------------------------------------
(* utils/helpers.js *)

\* paginateResults with the offset counted from page 0
paginateResultsOffByOne(page, limit) ==
  LET pageNum == OrElse(ParseInt(WithDefault(page, 1)), 1)
      limitNum == OrElse(ParseInt(WithDefault(limit, 10)), 10)
  IN [offset |-> pageNum * limitNum, limit |-> limitNum]

\* paginateResults(page = 1, limit = 10).  parseInt of the product is the
\* product itself: both factors are integers.
paginateResults(page, limit) ==
  LET pageNum == OrElse(ParseInt(WithDefault(page, 1)), 1)
      limitNum == OrElse(ParseInt(WithDefault(limit, 10)), 10)
  IN [offset |-> (pageNum - 1) * limitNum, limit |-> limitNum]

---------------------------------------------------------------------------
(* Text.  Names are sequences of characters so that case folding, trimming *)
(* and key construction are computed as the code computes them.            *)

Lowered == [c \in {"A", "B", "C", "P", "T"} |->
             CASE c = "A" -> "a" [] c = "B" -> "b" [] c = "C" -> "c"
               [] c = "P" -> "p" [] c = "T" -> "t"]

ToLowerChar(c) == IF c \in DOMAIN Lowered THEN Lowered[c] ELSE c

\* String.prototype.toLowerCase
toLowerCase(s) == [i \in 1..Len(s) |-> ToLowerChar(s[i])]

CharOrd(c) ==
  CASE c = " " -> 0 [] c = "<" -> 1 [] c = ">" -> 2
    [] c = "A" -> 10 [] c = "B" -> 11 [] c = "C" -> 12 [] c = "P" -> 13 [] c = "T" -> 14
    [] c = "_" -> 20
    [] c = "a" -> 30 [] c = "b" -> 31 [] c = "c" -> 32 [] c = "p" -> 33 [] c = "t" -> 34
    [] OTHER -> 40

RECURSIVE TextLess(_, _)
TextLess(s, t) ==
  IF t = <<>> THEN FALSE
  ELSE IF s = <<>> THEN TRUE
  ELSE IF CharOrd(Head(s)) # CharOrd(Head(t)) THEN CharOrd(Head(s)) < CharOrd(Head(t))
  ELSE TextLess(Tail(s), Tail(t))

\* s occurs in t (SQL: t LIKE '%s%')
Contains(t, s) ==
  \E i \in 0..(Len(t) - Len(s)) : \A j \in 1..Len(s) : t[i + j] = s[j]

RECURSIVE TrimLeft(_)
TrimLeft(s) == IF s # <<>> /\ Head(s) = " " THEN TrimLeft(Tail(s)) ELSE s

RECURSIVE TrimRight(_)
TrimRight(s) ==
  IF s # <<>> /\ s[Len(s)] = " " THEN TrimRight(SubSeq(s, 1, Len(s) - 1)) ELSE s

\* String.prototype.trim
trim(s) == TrimRight(TrimLeft(s))

\* sanitizeInput: input.trim().replace(/[<>]/g, '')
sanitizeInput(s) == SelectSeq(trim(s), LAMBDA c : c \notin {"<", ">"})

---------------------------------------------------------------------------
(* The record store: the cities table.                                     *)

Cities == <<
  [id |-> 1, name |-> <<"A">>, country |-> <<"P">>, monthly_cost_usd |-> 3,
   safety_score |-> 1, nightlife_rating |-> 2, transport_rating |-> 3,
   climate_summary |-> <<"a">>, description |-> <<"t">>],
  [id |-> 2, name |-> <<"B">>, country |-> <<"P">>, monthly_cost_usd |-> 1,
   safety_score |-> 2, nightlife_rating |-> 3, transport_rating |-> 1,
   climate_summary |-> <<"b">>, description |-> <<"a">>],
  [id |-> 3, name |-> <<"C">>, country |-> <<"T">>, monthly_cost_usd |-> 2,
   safety_score |-> 3, nightlife_rating |-> 1, transport_rating |-> 2,
   climate_summary |-> <<"a">>, description |-> <<"c">>] >>

Users == {"u1"}

TextFields == {"name", "country"}

\* row a sorts strictly before row b on field f in direction dir
RowBefore(a, b, f, dir) ==
  LET lt(x, y) == IF f \in TextFields THEN TextLess(x[f], y[f]) ELSE x[f] < y[f]
  IN IF dir = "ASC" THEN lt(a, b) ELSE lt(b, a)

\* A stable sort (Array.prototype.sort, ORDER BY): element i goes behind
\* every element that sorts strictly before it and behind the earlier
\* elements it ties with.
\* before[i, j] tells whether s[i] sorts strictly before s[j].
StableSort(s, before) ==
  LET n == Len(s)
      tie(i, j) == ~before[i, j] /\ ~before[j, i]
      pos(i) == 1 + Cardinality({j \in 1..n : before[j, i]})
                  + Cardinality({j \in 1..(i - 1) : tie(i, j)})
  IN [p \in 1..n |-> s[CHOOSE i \in 1..n : pos(i) = p]]

\* ORDER BY f dir on the rows s
ByField(s, f, dir) == [i, j \in 1..Len(s) |-> RowBefore(s[i], s[j], f, dir)]

\* LIMIT lim OFFSET off
LimitOffset(s, lim, off) == SubSeq(s, off + 1, Min(Len(s), off + lim))

\* {...r, ...extra}
Spread(r, extra) ==
  [f \in DOMAIN r \cup DOMAIN extra |-> IF f \in DOMAIN extra THEN extra[f] ELSE r[f]]

Has(r, f) == f \in DOMAIN r

\* the WHERE clause of the list and filter routes: one condition per
\* parameter the route pushed
WhereParams(q) ==
  (IF q.country # <<>> THEN {"country"} ELSE {})
  \cup (IF q.climate # <<>> THEN {"climate"} ELSE {})
  \cup (IF Truthy(q.min_cost) /\ ~ParseInt(q.min_cost).nan THEN {"min_cost"} ELSE {})
  \cup (IF Truthy(q.max_cost) /\ ~ParseInt(q.max_cost).nan THEN {"max_cost"} ELSE {})
  \cup (IF Truthy(q.min_safety) /\ ~ParseInt(q.min_safety).nan THEN {"min_safety"} ELSE {})

WhereMatch(c, q) ==
  LET ps == WhereParams(q)
  IN /\ "country" \in ps => Contains(c.country, sanitizeInput(q.country))
     /\ "climate" \in ps => Contains(c.climate_summary, sanitizeInput(q.climate))
     /\ "min_cost" \in ps => c.monthly_cost_usd >= q.min_cost.v
     /\ "max_cost" \in ps => c.monthly_cost_usd <= q.max_cost.v
     /\ "min_safety" \in ps => c.safety_score >= q.min_safety.v

\* SELECT ... FROM cities <where> ORDER BY f dir LIMIT lim OFFSET off
SelectCities(rows, f, dir, lim, off) ==
  LimitOffset(StableSort(rows, ByField(rows, f, dir)), lim, off)

\* MySQL refuses a negative LIMIT or OFFSET
StoreRejects(lim, off) == lim < 0 \/ off < 0

\* the lookup without its city_id condition
IsSavedAnyCity(saved, user, city) == \E row \in saved : row[1] = user

\* SELECT 1 FROM saved_cities WHERE user_id = ? AND city_id = ?
IsSaved(saved, user, city) == Has(city, "id") /\ <<user, city.id>> \in saved

---------------------------------------------------------------------------
(* services/python.service.js.  `ml` holds the outcomes of the calls to    *)
(* the prediction service: health is "2xx", "non2xx", "refused" or         *)
(* "timeout"; fetch is "ok" (2xx with a data array), "nodata" (2xx whose   *)
(* body has no data array) or "throw" (non-2xx, refused, timeout).         *)

\* what the GET /health request can end with; axios rejects all but the first
HealthOutcomes == {"2xx", "non2xx", "refused", "timeout"}

\* checkHealth taking every answered request for a healthy service
checkHealthAnyReply(ml) ==
  [threw |-> FALSE, success |-> ml.health \in {"2xx", "non2xx"}]

\* checkHealth: the catch turns a rejected request into success: false
checkHealth(ml) == [threw |-> FALSE, success |-> ml.health = "2xx"]

\* isAvailable: health.success, and false should checkHealth throw
isAvailable(ml) ==
  LET health == checkHealth(ml)
  IN IF health.threw THEN FALSE ELSE health.success

\* getTopCities, searchCities, getCitiesByCountry share this shape: the
\* reply's data array is passed on, any error is rethrown by handleError
FetchCities(ml) ==
  IF ml.fetch = "throw" THEN [threw |-> TRUE, success |-> FALSE, isArray |-> FALSE, data |-> <<>>]
  ELSE [threw |-> FALSE, success |-> TRUE, isArray |-> ml.fetch = "ok",
        data |-> IF ml.fetch = "ok" THEN ml.data ELSE <<>>]

getTopCities(ml, limit) == FetchCities(ml)

\* throws 'Country parameter is required' on a blank country before any request
getCitiesByCountry(ml, country, limit) ==
  IF trim(country) = <<>>
    THEN [threw |-> TRUE, success |-> FALSE, isArray |-> FALSE, data |-> <<>>]
    ELSE FetchCities(ml)

\* The values mergeCityData can be handed: an array, or something else
Arr(s) == [k |-> "array", v |-> s]

JsUndefined == [k |-> "undefined", v |-> <<>>]

JsNull == [k |-> "null", v |-> <<>>]

\* the empty string: not an array, and falsy like undefined and null
JsEmptyString == [k |-> "string", v |-> <<>>]

\* an object that is no array, such as a reply body
JsObject == [k |-> "object", v |-> <<>>]

\* Array.isArray
IsArray(x) == x.k = "array"

Falsy(x) == x.k \in {"undefined", "null"} \/ (x.k = "string" /\ x.v = <<>>)

\* handleError: the statusCode of the error it returns; responseStatus is
\* error.response.status, 0 for an error that carries no response
handleError(responseStatus) == IF responseStatus = 0 THEN 500 ELSE responseStatus

\* searchCities, getCitiesByCountry and getPersonalizedCities called with
\* any value as their first argument: the guard at the top of the try, then
\* the request.  A truthy value that is no string has no trim(), which
\* throws a TypeError inside the same try.  requests counts the requests
\* made; replyStatus is the status of an error reply, 0 when none came.
ServiceRequest(fn, arg, ml, replyStatus) ==
  LET guarded == IF fn = "getPersonalizedCities"
                   THEN Falsy(arg) \/ arg.k \notin {"object", "array"}
                   ELSE Falsy(arg) \/ arg.k # "string" \/ trim(arg.v) = <<>>
  IN IF guarded THEN [threw |-> TRUE, requests |-> 0, statusCode |-> handleError(0)]
     ELSE IF ml.fetch = "throw"
       THEN [threw |-> TRUE, requests |-> 1, statusCode |-> handleError(replyStatus)]
     ELSE [threw |-> FALSE, requests |-> 1, statusCode |-> 0]

\* the key built from the names as they are spelled
MergeKeyCaseSensitive(c) ==
  LET part(f) == IF Has(c, f) THEN c[f] ELSE <<"undefined">>
  IN part("name") \o <<"_">> \o part("country")

\* `${c.name?.toLowerCase()}_${c.country?.toLowerCase()}`
MergeKey(c) ==
  LET part(f) == IF Has(c, f) THEN toLowerCase(c[f]) ELSE <<"undefined">>
  IN part("name") \o <<"_">> \o part("country")

\* `dbCities || []` handing a missing argument back as it came
OrEmptyArrayKeepsMissing(x) == x

\* dbCities || []
OrEmptyArray(x) == IF Falsy(x) THEN Arr(<<>>) ELSE x

\* the map over dbCities dropping the records that have no prediction
MergeRecordsMatchedOnly(dbCities, mlCities) ==
  LET hits(c) == {i \in 1..Len(mlCities) : MergeKey(mlCities[i]) = MergeKey(c)}
      last(S) == CHOOSE i \in S : \A j \in S : j <= i
      matched == SelectSeq(dbCities, LAMBDA c : hits(c) # {})
  IN [i \in 1..Len(matched) |->
        Spread(matched[i],
               [predicted_score |-> mlCities[last(hits(matched[i]))].predicted_score,
                ml_enhanced |-> TRUE])]

\* mlMap and the map over dbCities: the Map keeps the last prediction of a
\* key, and every record is copied with the two fields added
MergeRecords(dbCities, mlCities) ==
  LET hits(c) == {i \in 1..Len(mlCities) : MergeKey(mlCities[i]) = MergeKey(c)}
      last(S) == CHOOSE i \in S : \A j \in S : j <= i
      merged(c) ==
        IF hits(c) # {}
          THEN Spread(c, [predicted_score |-> mlCities[last(hits(c))].predicted_score,
                          ml_enhanced |-> TRUE])
          ELSE Spread(c, [predicted_score |-> 0, ml_enhanced |-> FALSE])
  IN [i \in 1..Len(dbCities) |-> merged(dbCities[i])]

\* mergeCityData(dbCities, mlCities) on the values above
mergeCityData(dbCities, mlCities) ==
  IF ~IsArray(dbCities) \/ ~IsArray(mlCities)
    THEN OrEmptyArray(dbCities)
    ELSE Arr(MergeRecords(dbCities.v, mlCities.v))

---------------------------------------------------------------------------
(* Responses (utils/helpers.js) *)

NoPagination ==
  [current_page |-> 0, total_pages |-> 0, total_items |-> 0, items_per_page |-> 0,
   has_next_page |-> FALSE, has_prev_page |-> FALSE]

\* what a handler handed to the record store for its page of rows
NoStore == [queried |-> FALSE, page |-> 0, limit |-> 0, offset |-> 0]

StoreArgs(page, lim, off) == [queried |-> TRUE, page |-> page, limit |-> lim, offset |-> off]

\* sent counts the res.status(..).json(..) calls made for the request
NoResponse ==
  [route |-> "none", status |-> 0, success |-> FALSE, message |-> "",
   error |-> [code |-> 0, message |-> ""], cities |-> <<>>,
   pagination |-> NoPagination, store |-> NoStore, calls |-> <<>>, sent |-> 0]

successResponse(route, cities, pagination, message, store, calls) ==
  [route |-> route, status |-> 200, success |-> TRUE, message |-> message,
   error |-> [code |-> 0, message |-> ""], cities |-> cities,
   pagination |-> pagination, store |-> store, calls |-> calls, sent |-> 1]

errorResponse(route, message, statusCode, store, calls) ==
  [route |-> route, status |-> statusCode, success |-> FALSE, message |-> message,
   error |-> [code |-> statusCode, message |-> message], cities |-> <<>>,
   pagination |-> NoPagination, store |-> store, calls |-> calls, sent |-> 1]

\* every call of a handler is awaited: the i-th call of a request is issued
\* when the one before it has completed
IssuedAt(i) == 2 * i - 1

CompletedAt(i) == 2 * i

\* the pagination block the routes compute themselves
PaginationBlock(pageNum, total, lim) ==
  LET totalPages == MathCeilDiv(total, lim)
  IN [current_page |-> pageNum, total_pages |-> totalPages, total_items |-> total,
      items_per_page |-> lim, has_next_page |-> pageNum < totalPages,
      has_prev_page |-> pageNum > 1]

---------------------------------------------------------------------------
(* Pieces the cities handlers share *)

Undefined == "undefined"

\* `const { sort_by = 'name' } = req.query`
SortByOf(q) == IF q.sort_by = Undefined THEN "name" ELSE q.sort_by

SortOrderOf(q) == IF q.sort_order = Undefined THEN "ASC" ELSE q.sort_order

\* String.prototype.toUpperCase on the sort orders a caller sends
toUpperCase(w) == CASE w = "asc" -> "ASC" [] w = "desc" -> "DESC" [] OTHER -> w

allowedSortFields ==
  {"name", "country", "monthly_cost_usd", "safety_score", "nightlife_rating", "transport_rating"}

allowedSortOrders == {"ASC", "DESC"}

SortField(q) == IF SortByOf(q) \in allowedSortFields THEN SortByOf(q) ELSE "name"

SortOrder(q) ==
  IF toUpperCase(SortOrderOf(q)) \in allowedSortOrders THEN toUpperCase(SortOrderOf(q)) ELSE "ASC"

FilteredCities(q) == SelectSeq(Cities, LAMBDA c : WhereMatch(c, q))

\* cities.map(city => ({ ...city, predicted_score: 0, ml_enhanced: false }))
WithDefaults(cities) ==
  [i \in 1..Len(cities) |-> Spread(cities[i], [predicted_score |-> 0, ml_enhanced |-> FALSE])]

\* the saved-status loop: one lookup per city
WithSavedStatus(cities, user, saved) ==
  [i \in 1..Len(cities) |-> Spread(cities[i], [is_saved |-> IsSaved(saved, user, cities[i])])]

SavedLookups(cities) == [i \in 1..Len(cities) |-> "saved"]

\* (a, b) => (b.predicted_score || 0) - (a.predicted_score || 0), negative
ScoreOf(c) == IF Has(c, "predicted_score") THEN c.predicted_score ELSE 0

\* the comparator with its operands swapped
ByScoreAscending(a, b) == ScoreOf(a) - ScoreOf(b) < 0

ByScoreDescending(a, b) == ScoreOf(b) - ScoreOf(a) < 0

\* enhancedCities.sort(comparator)
SortByScore(s) == StableSort(s, [i, j \in 1..Len(s) |-> ByScoreDescending(s[i], s[j])])

\* the tail of a list handler answering 200 when a saved-status lookup failed
FinishListSwallowsFailure(route, cities, user, saved, dbFail, pageNum, total, lim, message, failure, store, calls) ==
  successResponse(route, cities, PaginationBlock(pageNum, total, lim), message, store,
                  IF user # "none" /\ cities # <<>> THEN calls \o <<"saved">> ELSE calls)

\* the tail every list handler shares: saved status, pagination block, 200
\* A record without id makes city.id undefined, which pool.execute refuses
\* as a bind parameter: the loop throws at that record, into the catch.
FinishList(route, cities, user, saved, dbFail, pageNum, total, lim, message, failure, store, calls) ==
  LET noId == {i \in 1..Len(cities) : ~Has(cities[i], "id")}
      looked == IF noId = {} THEN cities
                ELSE SubSeq(cities, 1, (CHOOSE i \in noId : \A j \in noId : i <= j) - 1)
  IN
  IF user # "none" /\ dbFail = "saved" /\ looked # <<>>
    THEN errorResponse(route, failure, 500, store, calls \o <<"saved">>)
  ELSE IF user # "none" /\ noId # {}
    THEN errorResponse(route, failure, 500, store, calls \o SavedLookups(looked))
  ELSE successResponse(route,
         IF user # "none" THEN WithSavedStatus(cities, user, saved) ELSE cities,
         PaginationBlock(pageNum, total, lim), message, store,
         IF user # "none" THEN calls \o SavedLookups(cities) ELSE calls)

---------------------------------------------------------------------------
(* GET /cities, merge variant (unnamed/part_002) *)

\* the enhancement block asking the prediction service a second time
EnhanceMergeRetry(cities, q, ml) ==
  [cities |-> WithDefaults(cities),
   calls |-> IF isAvailable(ml) THEN <<"probe", "predict", "predict">>
             ELSE <<"probe", "probe">>]

\* the enhancement block: probe, fetch, merge, default sort
EnhanceMerge(cities, q, ml) ==
  IF ~isAvailable(ml)
    THEN [cities |-> WithDefaults(cities), calls |-> <<"probe">>]
  ELSE LET mlResult == getTopCities(ml, 1000)
       IN IF mlResult.threw \/ ~mlResult.isArray
            THEN [cities |-> WithDefaults(cities), calls |-> <<"probe", "predict">>]
          ELSE IF mlResult.success /\ Len(mlResult.data) > 0
            THEN LET enhancedCities == mergeCityData(Arr(cities), Arr(mlResult.data)).v
                 IN [cities |-> IF SortByOf(q) = "name" /\ SortOrderOf(q) = "ASC"
                                  THEN SortByScore(enhancedCities)
                                  ELSE enhancedCities,
                     calls |-> <<"probe", "predict">>]
          ELSE [cities |-> cities, calls |-> <<"probe", "predict">>]

ListCitiesMerge(q, user, ml, dbFail, saved) ==
  LET route == "list"
      failure == "Failed to retrieve cities"
      pageNum == Max(1, OrElse(ParseInt(WithDefault(q.page, 1)), 1))
      limitNum == Max(1, Min(100, OrElse(ParseInt(WithDefault(q.limit, 20)), 20)))
      pagination == paginateResults(Num(pageNum), Num(limitNum))
      finalLimit == pagination.limit
      finalOffset == pagination.offset
      store == StoreArgs(pageNum, finalLimit, finalOffset)
      rows == FilteredCities(q)
      total == Len(rows)
      page == IF WhereParams(q) = {}
                THEN SelectCities(Cities, "name", "ASC", finalLimit, finalOffset)
                ELSE SelectCities(rows, SortField(q), SortOrder(q), finalLimit, finalOffset)
      enhanced == EnhanceMerge(page, q, ml)
  IN IF finalLimit < 1 \/ finalOffset < 0
       THEN errorResponse(route, "Invalid pagination parameters", 400, NoStore, <<>>)
     ELSE IF dbFail = "count"
       THEN errorResponse(route, failure, 500, NoStore, <<"count">>)
     ELSE IF dbFail = "cities" \/ StoreRejects(finalLimit, finalOffset)
       THEN errorResponse(route, failure, 500, store, <<"count", "cities">>)
     ELSE FinishList(route, enhanced.cities, user, saved, dbFail, pageNum, total, finalLimit,
                     "Cities retrieved successfully", failure, store,
                     <<"count", "cities">> \o enhanced.calls)

---------------------------------------------------------------------------
(* GET /cities, direct variant (unnamed/part_003) *)

\* cities.map(city => ({ ...city, ml_enhanced: true }))
WithEnhancedFlag(cities) ==
  [i \in 1..Len(cities) |-> Spread(cities[i], [ml_enhanced |-> TRUE])]

\* the fetch block.  usable is FALSE when `cities` was left undefined (the
\* reply had no data array and the map threw): the later cities.length
\* then throws into the handler's catch.
FetchDirect(q, ml, finalLimit) ==
  IF ~isAvailable(ml)
    THEN [usable |-> TRUE, cities |-> <<>>, calls |-> <<"probe">>]
  ELSE LET mlResult == IF q.country # <<>>
                         THEN getCitiesByCountry(ml, q.country, finalLimit)
                         ELSE getTopCities(ml, finalLimit)
       IN IF mlResult.threw
            THEN [usable |-> TRUE, cities |-> <<>>, calls |-> <<"probe", "predict">>]
          ELSE IF ~mlResult.isArray
            THEN [usable |-> FALSE, cities |-> <<>>, calls |-> <<"probe", "predict">>]
          ELSE [usable |-> TRUE, cities |-> WithEnhancedFlag(mlResult.data),
                calls |-> <<"probe", "predict">>]

ListCitiesDirect(q, user, ml, dbFail, saved) ==
  LET route == "list"
      failure == "Failed to retrieve cities"
      pageNum == Max(1, OrElse(ParseInt(WithDefault(q.page, 1)), 1))
      limitNum == Max(1, Min(100, OrElse(ParseInt(WithDefault(q.limit, 20)), 20)))
      pagination == paginateResults(Num(pageNum), Num(limitNum))
      finalLimit == pagination.limit
      finalOffset == pagination.offset
      store == StoreArgs(pageNum, finalLimit, finalOffset)
      rows == FilteredCities(q)
      total == Len(rows)
      fetched == FetchDirect(q, ml, finalLimit)
      calls == <<"count">> \o fetched.calls
      page == SelectCities(rows, SortField(q), SortOrder(q), finalLimit, finalOffset)
  IN IF finalLimit < 1 \/ finalOffset < 0
       THEN errorResponse(route, "Invalid pagination parameters", 400, NoStore, <<>>)
     ELSE IF dbFail = "count"
       THEN errorResponse(route, failure, 500, NoStore, <<"count">>)
     ELSE IF ~fetched.usable
       THEN errorResponse(route, failure, 500, NoStore, calls)
     ELSE IF fetched.cities # <<>>
       THEN FinishList(route, fetched.cities, user, saved, dbFail, pageNum, total, finalLimit,
                       "Cities retrieved successfully", failure, NoStore, calls)
     ELSE IF dbFail = "cities" \/ StoreRejects(finalLimit, finalOffset)
       THEN errorResponse(route, failure, 500, store, calls \o <<"cities">>)
     ELSE FinishList(route, WithDefaults(page), user, saved, dbFail, pageNum, total, finalLimit,
                     "Cities retrieved successfully", failure, store, calls \o <<"cities">>)

---------------------------------------------------------------------------
(* GET /cities/filter, /cities/search/:query, /cities/country/:country     *)
(* (the same in both routers)                                              *)

\* the part the three routes share: resolve, count, select, annotate.
\* rows are the matching rows in the order of the route's ORDER BY.
PagedRoute(route, q, rows, user, dbFail, saved, message, failure) ==
  LET pageNum == OrElse(ParseInt(WithDefault(q.page, 1)), 1)
      limitNum == OrElse(ParseInt(WithDefault(q.limit, 20)), 20)
      pagination == paginateResults(Num(pageNum), Num(limitNum))
      queryLimit == pagination.limit
      offset == pagination.offset
      store == StoreArgs(pageNum, queryLimit, offset)
      total == Len(rows)
  IN IF dbFail = "count"
       THEN errorResponse(route, failure, 500, NoStore, <<"count">>)
     ELSE IF dbFail = "cities" \/ StoreRejects(queryLimit, offset)
       THEN errorResponse(route, failure, 500, store, <<"count", "cities">>)
     ELSE FinishList(route, LimitOffset(rows, queryLimit, offset),
                     user, saved, dbFail, pageNum, total, queryLimit, message, failure,
                     store, <<"count", "cities">>)

FilterCities(q, user, dbFail, saved) ==
  LET rows == FilteredCities(q)
  IN PagedRoute("filter", q, StableSort(rows, ByField(rows, SortField(q), SortOrder(q))),
                user, dbFail, saved,
                "Filtered cities retrieved successfully", "Failed to retrieve filtered cities")

\* t LIKE 's%'
StartsWith(t, s) == Len(s) <= Len(t) /\ SubSeq(t, 1, Len(s)) = s

SearchCities(query, q, user, dbFail, saved) ==
  LET searchQuery == sanitizeInput(query)
      match(c) == \/ Contains(c.name, searchQuery)
                  \/ Contains(c.country, searchQuery)
                  \/ Contains(c.description, searchQuery)
      rank(c) == IF StartsWith(c.name, searchQuery) THEN 1
                 ELSE IF StartsWith(c.country, searchQuery) THEN 2 ELSE 3
      before(a, b) == rank(a) < rank(b) \/ (rank(a) = rank(b) /\ TextLess(a.name, b.name))
      rows == SelectSeq(Cities, match)
  IN PagedRoute("search", q,
                StableSort(rows, [i, j \in 1..Len(rows) |-> before(rows[i], rows[j])]),
                user, dbFail, saved,
                "Search completed successfully", "Search failed")

CitiesByCountry(country, q, user, dbFail, saved) ==
  LET countryQuery == sanitizeInput(country)
      match(c) == Contains(c.country, countryQuery)
      rows == SelectSeq(Cities, match)
  IN PagedRoute("country", q, StableSort(rows, ByField(rows, "name", "ASC")),
                user, dbFail, saved,
                "Cities by country retrieved successfully",
                "Failed to retrieve cities by country")

---------------------------------------------------------------------------
(* GET /cities/personalized and GET /cities/saved (unnamed/part_003).      *)
(* token: "none" (no bearer token), "invalid" (jwt.verify throws),         *)
(* "nouserid" (verifies, no userId in it), or the user id it carries.      *)

\* getPersonalizedCities: the reply's data, totals and pagination block are
\* passed on; any error is rethrown by handleError
getPersonalizedCities(ml, limit, page) ==
  LET validatedLimit == Min(limit, 200)
      validatedPage == Max(page, 1)
  IN IF ml.fetch = "throw"
       THEN [threw |-> TRUE, success |-> FALSE, sent |-> StoreArgs(validatedPage, validatedLimit, 0),
             data |-> <<>>, total |-> 0, limit |-> 0, pagination |-> NoPagination]
       ELSE [threw |-> FALSE, success |-> TRUE, sent |-> StoreArgs(validatedPage, validatedLimit, 0),
             data |-> ml.data, total |-> ml.total, limit |-> ml.limit,
             pagination |-> ml.pagination]

\* the pagination block computed from the reply's total and limit
PersonalizedPaginationRecomputed(mlResult) ==
  LET totalPages == MathCeilDiv(mlResult.total, mlResult.limit)
  IN [current_page |-> mlResult.pagination.current_page,
      total_pages |-> totalPages,
      total_items |-> mlResult.total,
      items_per_page |-> mlResult.limit,
      has_next_page |-> mlResult.pagination.current_page < totalPages,
      has_prev_page |-> mlResult.pagination.current_page > 1]

\* the pagination block of the response: the fields of mlResult
PersonalizedPagination(mlResult) ==
  [current_page |-> mlResult.pagination.current_page,
   total_pages |-> mlResult.pagination.total_pages,
   total_items |-> mlResult.total,
   items_per_page |-> mlResult.limit,
   has_next_page |-> mlResult.pagination.has_next_page,
   has_prev_page |-> mlResult.pagination.has_prev_page]

PersonalizedCities(token, q, ml, dbFail, saved) ==
  LET route == "personalized"
      failure == "Failed to retrieve personalized cities"
      limitNum == Min(OrElse(ParseInt(WithDefault(q.limit, 20)), 20), 200)
      pageNum == Max(OrElse(ParseInt(WithDefault(q.page, 1)), 1), 1)
      mlResult == getPersonalizedCities(ml, limitNum, pageNum)
      cities == mlResult.data
  IN IF token = "none" THEN errorResponse(route, "Authentication required", 401, NoStore, <<>>)
     ELSE IF token = "invalid" THEN errorResponse(route, "Invalid token", 401, NoStore, <<>>)
     ELSE IF token = "nouserid" THEN errorResponse(route, "Invalid user token", 401, NoStore, <<>>)
     ELSE IF dbFail = "prefs" THEN errorResponse(route, failure, 500, NoStore, <<"prefs">>)
     ELSE IF token \notin Users THEN errorResponse(route, "User not found", 404, NoStore, <<"prefs">>)
     ELSE IF mlResult.threw \/ ml.fetch = "nodata"
       THEN errorResponse(route, failure, 500, mlResult.sent, <<"prefs", "predict">>)
     ELSE IF dbFail = "saved" /\ cities # <<>>
       THEN errorResponse(route, failure, 500, mlResult.sent, <<"prefs", "predict", "saved">>)
     ELSE successResponse(route, WithSavedStatus(cities, token, saved),
            PersonalizedPagination(mlResult),
            "Personalized city recommendations retrieved successfully",
            mlResult.sent, <<"prefs", "predict">> \o SavedLookups(cities))

\* the rows of saved_cities of one user joined with cities
SavedRows(user, saved) == SelectSeq(Cities, LAMBDA c : <<user, c.id>> \in saved)

\* dbFail: "join" fails the unpaginated join only, "fallback" fails it and
\* the hardcoded LIMIT 20 OFFSET 0 query behind it
SavedCities(token, q, dbFail, saved) ==
  LET route == "saved"
      failure == "Failed to retrieve saved cities"
      pageNum == OrElse(ParseInt(WithDefault(q.page, 1)), 1)
      limitNum == OrElse(ParseInt(WithDefault(q.limit, 20)), 20)
      finalLimit == Max(1, Min(limitNum, 100))
      finalOffset == Max(0, pageNum - 1) * finalLimit
      rows == SavedRows(token, saved)
      total == Len(rows)
      joined == dbFail \notin {"join", "fallback"}
      savedCities == IF joined THEN LimitOffset(rows, finalLimit, finalOffset)
                     ELSE LimitOffset(StableSort(rows, ByField(rows, "name", "ASC")), 20, 0)
      store == IF joined THEN StoreArgs(pageNum, finalLimit, finalOffset)
               ELSE StoreArgs(pageNum, 20, 0)
      calls == IF joined THEN <<"count", "test", "join">>
               ELSE <<"count", "test", "join", "fallback">>
  IN IF token = "none" THEN errorResponse(route, "Authentication required", 401, NoStore, <<>>)
     ELSE IF token = "invalid" THEN errorResponse(route, "Invalid token", 401, NoStore, <<>>)
     ELSE IF token = "nouserid" THEN errorResponse(route, "Invalid user token", 401, NoStore, <<>>)
     ELSE IF finalLimit < 0 \/ finalOffset < 0
       THEN errorResponse(route, "Internal server error", 500, NoStore, <<>>)
     ELSE IF dbFail = "count" THEN errorResponse(route, failure, 500, NoStore, <<"count">>)
     ELSE IF dbFail = "fallback" THEN errorResponse(route, failure, 500, store, calls)
     ELSE successResponse(route,
            [i \in 1..Len(savedCities) |-> Spread(savedCities[i], [is_saved |-> TRUE])],
            PaginationBlock(pageNum, total, finalLimit),
            "Saved cities retrieved successfully", store, calls)

---------------------------------------------------------------------------
(* Requests: the query string, the caller optionalAuth resolved, and the   *)
(* outcomes of the external calls made while the request is handled.       *)

PageInputs == {Missing, NonNumeric} \cup {Num(n) : n \in -1..MaxPageInput}

LimitInputs ==
  {Missing, NonNumeric, Num(-5), Num(100), Num(101)} \cup {Num(n) : n \in 0..MaxLimitInput}

DefaultQuery ==
  [page |-> Missing, limit |-> Missing, sort_by |-> Undefined, sort_order |-> Undefined,
   country |-> <<>>, climate |-> <<>>, min_cost |-> Missing, max_cost |-> Missing,
   min_safety |-> Missing]

Paging(q, page, limit) == [q EXCEPT !.page = page, !.limit = limit]

Sorting(q, by, order) == [q EXCEPT !.sort_by = by, !.sort_order = order]

SortInputs ==
  {<<Undefined, Undefined>>, <<"name", "ASC">>, <<"name", Undefined>>,
   <<"monthly_cost_usd", "DESC">>, <<"monthly_cost_usd", Undefined>>, <<Undefined, "DESC">>,
   <<"bogus", "DESC">>}

FilterInputs ==
  {DefaultQuery,
   [DefaultQuery EXCEPT !.country = <<"P">>],
   [DefaultQuery EXCEPT !.min_cost = Num(2)],
   [DefaultQuery EXCEPT !.climate = <<"a">>, !.max_cost = Num(3), !.min_safety = Num(1)]}

\* what the prediction service can answer with
PredictionRecords ==
  {[name |-> Cities[i].name, country |-> Cities[i].country, predicted_score |-> sc] :
     i \in 1..Len(Cities), sc \in 1..MaxScore}

PredictionLists ==
  UNION {[1..n -> PredictionRecords] : n \in 0..MaxPredictions}

Reply(health, fetch, data, total, limit, pagination) ==
  [health |-> health, fetch |-> fetch, data |-> data, total |-> total, limit |-> limit,
   pagination |-> pagination]

MlDown == Reply("refused", "throw", <<>>, 0, 0, NoPagination)

MlThrows == Reply("2xx", "throw", <<>>, 0, 0, NoPagination)

MlNoData == Reply("2xx", "nodata", <<>>, 0, 0, NoPagination)

MlAnswers(d) == Reply("2xx", "ok", d, Len(d), Len(d), NoPagination)

MlOutcomes == {MlDown, MlThrows, MlNoData} \cup {MlAnswers(d) : d \in PredictionLists}

\* a record of the store as the prediction service returns it, scored
Scored(i, sc) == Spread(Cities[i], [predicted_score |-> sc])

\* the health request is answered with an error status while the
\* predictions could be fetched
MlUnhealthy ==
  Reply("non2xx", "ok", <<[name |-> <<"B">>, country |-> <<"P">>, predicted_score |-> 1]>>,
        1, 1, NoPagination)

MlSample ==
  {MlDown, MlUnhealthy, MlThrows, MlNoData, MlAnswers(<<>>),
   MlAnswers(<<[name |-> <<"B">>, country |-> <<"P">>, predicted_score |-> 1]>>),
   MlAnswers(<<Scored(2, 1), Scored(1, 1)>>)}

\* replies of the personalized endpoint, with its own pagination block
PersonalizedPages ==
  {[current_page |-> 1, total_pages |-> 1, total_items |-> 0, items_per_page |-> 0,
    has_next_page |-> FALSE, has_prev_page |-> FALSE],
   [current_page |-> 2, total_pages |-> 5, total_items |-> 0, items_per_page |-> 0,
    has_next_page |-> TRUE, has_prev_page |-> TRUE]}

PersonalizedOutcomes ==
  {MlThrows, MlNoData}
  \cup {Reply("2xx", "ok", d, t, 2, pg) :
          d \in {<<>>, <<Scored(1, MaxScore)>>, <<Scored(2, MaxScore), Scored(1, 1)>>},
          t \in {2, 9}, pg \in PersonalizedPages}

Callers == {"none"} \cup Users

Tokens == {"none", "invalid", "nouserid", "ghost"} \cup Users

Variants == {"merge", "direct"}

Request(route, variant, q, user, token, param, ml, dbFail) ==
  [route |-> route, variant |-> variant, q |-> q, user |-> user, token |-> token,
   param |-> param, ml |-> ml, dbFail |-> dbFail]

ListRequest(variant, q, user, ml, dbFail) ==
  Request("list", variant, q, user, "none", <<>>, ml, dbFail)

PagingQueries == {Paging(DefaultQuery, p, l) : p \in PageInputs, l \in LimitInputs}

\* every page and limit input, on a healthy and on a failed prediction service
PagingListRequests(v) ==
  {ListRequest(v, q, "none", ml, "none") : q \in PagingQueries, ml \in MlSample}

\* every sort, filter and prediction outcome on the first page
EnrichListRequests(v) ==
  {ListRequest(v, Paging(Sorting(f, so[1], so[2]), Num(1), l), "none", ml, "none") :
     f \in FilterInputs, so \in SortInputs,
     l \in {Missing, Num(MaxLimitInput)}, ml \in MlOutcomes}

\* callers and record-store failures
CallerListRequests(v) ==
  {ListRequest(v, Paging(DefaultQuery, p, Num(MaxLimitInput)), u, ml, f) :
     p \in {Num(1), Num(2)}, u \in Callers, ml \in MlSample,
     f \in {"none", "count", "cities", "saved"}}

ListRequests(v) == PagingListRequests(v) \cup EnrichListRequests(v) \cup CallerListRequests(v)

PagedRequests(route, params, queries) ==
  {Request(route, "none", Paging(f, q.page, q.limit), "none", "none", x, MlDown, "none") :
     x \in params, f \in queries, q \in PagingQueries}
  \cup {Request(route, "none", Paging(f, Num(1), Num(MaxLimitInput)), u, "none", x, MlDown, d) :
          x \in params, f \in queries, u \in Callers, d \in {"none", "count", "cities", "saved"}}

FilterRequests ==
  PagedRequests("filter", {<<>>},
                FilterInputs \cup {Sorting(DefaultQuery, "monthly_cost_usd", "DESC"),
                                    Sorting(DefaultQuery, "bogus", "DESC"),
                                    Sorting(DefaultQuery, "bogus", "asc")})

SearchRequests == PagedRequests("search", {<<"P">>, <<"a">>, <<"<", "T">>}, {DefaultQuery})

CountryRequests == PagedRequests("country", {<<"P">>, <<"T", " ">>}, {DefaultQuery})

PersonalizedRequests ==
  {Request("personalized", "none", q, "none", "u1", <<>>, ml, "none") :
     q \in PagingQueries, ml \in {MlThrows, Reply("2xx", "ok", <<Scored(1, 1)>>, 2, 2,
                                                  CHOOSE pg \in PersonalizedPages : pg.current_page = 2)}}
  \cup {Request("personalized", "none", DefaultQuery, "none", t, <<>>, ml, d) :
          t \in Tokens, ml \in PersonalizedOutcomes, d \in {"none", "prefs", "saved"}}

SavedRequests ==
  {Request("saved", "none", q, "none", t, <<>>, MlDown, d) :
     q \in PagingQueries, t \in Tokens, d \in {"none", "count", "join", "fallback"}}

HelperRequests ==
  {Request("paginateResults", "none", q, "none", "none", <<>>, MlDown, "none") :
     q \in PagingQueries}

NoRequest == Request("none", "none", DefaultQuery, "none", "none", <<>>, MlDown, "none")

SavedSets ==
  {{}, {<<"u1", 1>>}, {<<"u1", 1>>, <<"u2", 2>>}, {<<"u1", 1>>, <<"u1", 2>>, <<"u1", 3>>}}

---------------------------------------------------------------------------
(* Direct calls of the prediction service's functions, as the integration  *)
(* script makes them (test-python-integration.js)                          *)

MergeNames == {<<"A">>, <<"a">>, <<"B">>}

MergeCountries == {<<"P">>, <<"p">>}

MergePredictions ==
  {[name |-> n, country |-> c, predicted_score |-> sc] :
     n \in MergeNames, c \in MergeCountries, sc \in 1..MaxScore}

\* and, besides those, a prediction for the city "A" of the country "P_P"
\* and one that carries no name
MergePredictionLists ==
  UNION {[1..n -> MergePredictions] : n \in 0..MaxPredictions}
  \cup {<<[name |-> <<"A">>, country |-> <<"P", "_", "P">>, predicted_score |-> MaxScore]>>,
        <<[country |-> <<"P">>, predicted_score |-> MaxScore]>>}

\* the city A/P spelled in lower case, as another row
LowerCaseCity == [Cities[1] EXCEPT !.id = 4, !.name = <<"a">>, !.country = <<"p">>]

\* the last two lists hold a city named "A_P" and a row without a name
MergeRecordLists ==
  {<<>>, <<Cities[1]>>, <<Cities[1], Cities[2]>>, <<Cities[2], Cities[1]>>,
   <<LowerCaseCity, Cities[3]>>, <<Cities[1], LowerCaseCity>>,
   <<[Cities[1] EXCEPT !.id = 5, !.name = <<"A", "_", "P">>], Cities[2]>>,
   <<[f \in DOMAIN Cities[2] \ {"name"} |-> Cities[2][f]], Cities[1]>>}

NonArrays == {JsUndefined, JsNull, JsEmptyString, JsObject}

DbArguments == NonArrays \cup {Arr(r) : r \in MergeRecordLists}

MlArguments == NonArrays \cup {Arr(p) : p \in MergePredictionLists}

JsBoolean(b) == [k |-> "boolean", v |-> b]

\* the function called, its arguments as the caller holds them after the
\* call, and the outcome of the health request made during the call
Call(fn, dbCities, mlCities, ml) ==
  [fn |-> fn, dbCities |-> dbCities, mlCities |-> mlCities, ml |-> ml]

NoCall == Call("none", JsUndefined, JsUndefined, MlDown)

---------------------------------------------------------------------------
(* middleware/auth.middleware.js and the last two handlers of server.js,   *)
(* as Express calls them.  A bearer token is "none" (no token in the       *)
(* header), "invalid" (JsonWebTokenError), "expired" (TokenExpiredError),  *)
(* "notbefore" (NotBeforeError), "nouserid" (verifies, carries no userId), *)
(* "ghost" (verifies, no such user) or the id of the user it verifies for. *)
(* A JSON body is a record; a string-valued error is [text |-> ..].        *)

BearerTokens == {"none", "invalid", "expired", "notbefore", "nouserid", "ghost"} \cup Users

\* what a middleware or handler did: next() calls, responses sent, and the
\* status and body sent; user is req.user afterwards
Outcome(next, sent, status, body, user) ==
  [k |-> "outcome", next |-> next, sent |-> sent, status |-> status, body |-> body,
   user |-> user]

\* res.status(status).json({ error, message })
Refusal(status, error, message) ==
  Outcome(0, 1, status, [error |-> [text |-> error], message |-> message], "none")

\* authenticateToken letting a verified token of a deleted user through
authenticateTokenSkipsUserCheck(token, dbFail) ==
  IF token \in Users \cup {"ghost"} /\ dbFail = "none"
    THEN Outcome(1, 0, 0, [none |-> TRUE], token)
    ELSE Refusal(401, "Access denied", "Invalid token")

\* authenticateToken.  An undefined userId is refused by pool.execute as a
\* bind parameter, which lands in the catch like a failed query.
authenticateToken(token, dbFail) ==
  IF token = "none" THEN Refusal(401, "Access denied", "No token provided")
  ELSE IF token = "invalid" THEN Refusal(401, "Access denied", "Invalid token")
  ELSE IF token = "expired" THEN Refusal(401, "Access denied", "Token expired")
  ELSE IF token \in {"notbefore", "nouserid"} \/ dbFail = "users"
    THEN Refusal(500, "Internal server error", "Authentication failed")
  ELSE IF token \notin Users THEN Refusal(401, "Access denied", "Invalid token")
  ELSE Outcome(1, 0, 0, [none |-> TRUE], token)

\* optionalAuth: next() at the end of the try, or in the catch
optionalAuth(token, dbFail) ==
  IF token \in Users /\ dbFail = "none"
    THEN Outcome(1, 0, 0, [none |-> TRUE], token)
    ELSE Outcome(1, 0, 0, [none |-> TRUE], "none")

\* app.use('*', ..): the 404 handler
notFoundHandler ==
  Refusal(404, "Route not found", "The requested endpoint does not exist")

\* the global error handler; statusCode is err.statusCode, 0 when it has none
globalErrorHandler(statusCode) ==
  Outcome(0, 1, IF statusCode = 0 THEN 500 ELSE statusCode,
          [error |-> [message |-> "Internal Server Error"]], "none")

\* errorResponse called by a route handler: the body it sends
sentByErrorResponse(message, statusCode) ==
  LET r == errorResponse("none", message, statusCode, NoStore, <<>>)
  IN Outcome(0, r.sent, r.status,
             [success |-> r.success, message |-> r.message, error |-> r.error], "none")

---------------------------------------------------------------------------
(* server.js startServer and config/database (unnamed/part_004): the       *)
(* process from its start, and the handlers of the requests it then serves *)
(* side by side.  boot.done lists the startup steps completed, boot.failed *)
(* the ones that failed.  db holds the rows of users and the number of     *)
(* rows of saved_cities for one user and one city; nothing in the source   *)
(* creates saved_cities, so whether it has a unique key on (user_id,       *)
(* city_id) is open (db.savedUnique).  db.users holds the rows with the    *)
(* one email, each named by the request that inserted it.                  *)

MaxRequests == 3

Booting ==
  [pc |-> "testConnection", done |-> <<>>, failed |-> {}, exited |-> FALSE, exitCode |-> 0]

Listening ==
  [Booting EXCEPT !.pc = "listening",
                  !.done = <<"testConnection", "initializeDatabase", "listen">>]

\* process.exit(1)
Exit1(b) == [b EXCEPT !.pc = "exited", !.exited = TRUE, !.exitCode = 1]

\* await testConnection(): its catch logs and calls process.exit(1) itself
testConnection(b, ok) ==
  IF ok THEN [b EXCEPT !.pc = "initializeDatabase", !.done = Append(@, "testConnection")]
  ELSE Exit1([b EXCEPT !.failed = @ \cup {"testConnection"}])

\* initializeDatabase logging its failure without rethrowing it
initializeDatabaseSwallowsFailure(b, ok) ==
  IF ok THEN [b EXCEPT !.pc = "listen", !.done = Append(@, "initializeDatabase")]
  ELSE [b EXCEPT !.pc = "listen", !.failed = @ \cup {"initializeDatabase"}]

\* await initializeDatabase(): its catch rethrows, startServer's catch
\* calls process.exit(1)
initializeDatabase(b, ok) ==
  IF ok THEN [b EXCEPT !.pc = "listen", !.done = Append(@, "initializeDatabase")]
  ELSE Exit1([b EXCEPT !.failed = @ \cup {"initializeDatabase"}])

NoRows(savedUnique) == [users |-> {}, saved |-> 0, savedUnique |-> savedUnique]

\* a handler: the route it serves, the statement it is about to run, what
\* its SELECT found, the response it sent (status 0: none yet), whether it
\* wrote, and whether a row was stored right after its write
Handler(route, pc, found, status, is_saved, token, wrote, stored) ==
  [route |-> route, pc |-> pc, found |-> found, status |-> status, is_saved |-> is_saved,
   token |-> token, wrote |-> wrote, stored |-> stored]

NoHandler == Handler("none", "idle", FALSE, 0, FALSE, FALSE, FALSE, FALSE)

NoHandlers == [i \in 1..MaxRequests |-> NoHandler]

---------------------------------------------------------------------------
(* The state machine *)

Init ==
  /\ req = NoRequest
  /\ resp = NoResponse
  /\ saved_cities \in SavedSets
  /\ call = NoCall
  /\ returned = JsUndefined
  /\ boot = Listening
  /\ db = NoRows(FALSE)
  /\ handlers = NoHandlers

Idle == resp.status = 0

Handle(r, response) ==
  /\ req' = r
  /\ resp' = response
  /\ UNCHANGED <<saved_cities, call, returned, boot, db, handlers>>

\* router.get('/') of the merge router
GetCitiesMerge ==
  /\ Idle
  /\ \E r \in ListRequests("merge") :
      Handle(r, ListCitiesMerge(r.q, r.user, r.ml, r.dbFail, saved_cities))

\* router.get('/') of the direct router
GetCitiesDirect ==
  /\ Idle
  /\ \E r \in ListRequests("direct") :
      Handle(r, ListCitiesDirect(r.q, r.user, r.ml, r.dbFail, saved_cities))

GetFilter ==
  /\ Idle
  /\ \E r \in FilterRequests : Handle(r, FilterCities(r.q, r.user, r.dbFail, saved_cities))

GetSearch ==
  /\ Idle
  /\ \E r \in SearchRequests :
      Handle(r, SearchCities(r.param, r.q, r.user, r.dbFail, saved_cities))

GetCountry ==
  /\ Idle
  /\ \E r \in CountryRequests :
      Handle(r, CitiesByCountry(r.param, r.q, r.user, r.dbFail, saved_cities))

GetPersonalized ==
  /\ Idle
  /\ \E r \in PersonalizedRequests :
      Handle(r, PersonalizedCities(r.token, r.q, r.ml, r.dbFail, saved_cities))

GetSaved ==
  /\ Idle
  /\ \E r \in SavedRequests : Handle(r, SavedCities(r.token, r.q, r.dbFail, saved_cities))

\* a direct call of the helper, as the pagination test script makes
CallPaginateResults ==
  /\ Idle
  /\ \E r \in HelperRequests :
         Handle(r, LET res == paginateResults(r.q.page, r.q.limit)
                 IN [NoResponse EXCEPT !.route = "paginateResults", !.status = 1,
                                    !.store = StoreArgs(0, res.limit, res.offset)])

\* the response is on the wire; the server takes the next request
ResponseSent ==
  /\ ~Idle
  /\ req' = NoRequest
  /\ resp' = NoResponse
  /\ UNCHANGED <<saved_cities, call, returned, boot, db, handlers>>

Next ==
  \/ GetCitiesMerge
  \/ GetCitiesDirect
  \/ GetFilter
  \/ GetSearch
  \/ GetCountry
  \/ GetPersonalized
  \/ GetSaved
  \/ CallPaginateResults
  \/ ResponseSent

Spec == Init /\ [][Next]_vars

---------------------------------------------------------------------------
(* The state machine of the direct calls *)

ServiceInit ==
  /\ req = NoRequest
  /\ resp = NoResponse
  /\ saved_cities = {}
  /\ call = NoCall
  /\ returned = JsUndefined
  /\ boot = Booting
  /\ db = NoRows(FALSE)
  /\ handlers = NoHandlers

NotCalling == call.fn = "none"

\* what mergeCityData leaves of the caller's dbCities: map and spread build
\* new objects, the argument is as it was
ArgumentAfterMerge(dbCities, mlCities) == dbCities

\* pythonService.mergeCityData(dbCities, mlCities)
CallMergeCityData ==
  /\ NotCalling
  /\ \E d \in DbArguments, m \in MlArguments :
        /\ call' = Call("mergeCityData", ArgumentAfterMerge(d, m), m, MlDown)
        /\ returned' = mergeCityData(d, m)
  /\ UNCHANGED <<req, resp, saved_cities, boot, db, handlers>>

\* await pythonService.isAvailable()
CallIsAvailable ==
  /\ NotCalling
  /\ \E h \in HealthOutcomes :
        LET ml == Reply(h, "throw", <<>>, 0, 0, NoPagination)
        IN /\ call' = Call("isAvailable", JsUndefined, JsUndefined, ml)
           /\ returned' = JsBoolean(isAvailable(ml))
  /\ UNCHANGED <<req, resp, saved_cities, boot, db, handlers>>

\* first arguments of the three functions: nothing, blank texts, a name,
\* preferences, and values of other types
ServiceArguments ==
  {JsUndefined, JsNull, JsEmptyString, [k |-> "string", v |-> <<" ">>],
   [k |-> "string", v |-> <<"P">>], JsObject, Arr(<<>>), JsBoolean(TRUE)}

\* the service's search, country or personalized function is called
CallServiceRequest ==
  /\ NotCalling
  /\ \E fn \in {"searchCities", "getCitiesByCountry", "getPersonalizedCities"},
        arg \in ServiceArguments, ml \in {MlDown, MlThrows, MlNoData, MlAnswers(<<>>)},
        replyStatus \in {0, 404, 503} :
        /\ call' = Spread(Call(fn, JsUndefined, JsUndefined, ml),
                          [arg |-> arg, replyStatus |-> replyStatus])
        /\ returned' = ServiceRequest(fn, arg, ml, replyStatus)
  /\ UNCHANGED <<req, resp, saved_cities, boot, db, handlers>>

\* Express runs authenticateToken or optionalAuth in front of a handler
CallAuthMiddleware ==
  /\ NotCalling
  /\ \E fn \in {"authenticateToken", "optionalAuth"}, t \in BearerTokens,
        d \in {"none", "users"} :
        /\ call' = Spread(Call(fn, JsUndefined, JsUndefined, MlDown),
                          [token |-> t, dbFail |-> d])
        /\ returned' = IF fn = "authenticateToken" THEN authenticateToken(t, d)
                        ELSE optionalAuth(t, d)
  /\ UNCHANGED <<req, resp, saved_cities, boot, db, handlers>>

\* a request fails outside the middleware: no route matches it, its JSON
\* body does not parse (express.json passes an error with statusCode 400
\* on), a handler passes an error without statusCode on, or a handler
\* calls errorResponse
CallFailureHandler ==
  /\ NotCalling
  /\ \/ /\ call' = Call("notFoundHandler", JsUndefined, JsUndefined, MlDown)
        /\ returned' = notFoundHandler
     \/ \E sc \in {0, 400} :
          /\ call' = Call("globalErrorHandler", JsUndefined, JsUndefined, MlDown)
          /\ returned' = globalErrorHandler(sc)
     \/ \E sc \in {400, 401, 404, 409, 500} :
          /\ call' = Call("errorResponse", JsUndefined, JsUndefined, MlDown)
          /\ returned' = sentByErrorResponse("Error occurred", sc)
  /\ UNCHANGED <<req, resp, saved_cities, boot, db, handlers>>

\* the script goes on to its next test
CallDone ==
  /\ ~NotCalling
  /\ call' = NoCall
  /\ returned' = JsUndefined
  /\ UNCHANGED <<req, resp, saved_cities, boot, db, handlers>>

ServiceNext ==
  \/ CallMergeCityData
  \/ CallIsAvailable
  \/ CallServiceRequest
  \/ CallAuthMiddleware
  \/ CallFailureHandler
  \/ CallDone

ServiceSpec == ServiceInit /\ [][ServiceNext]_vars

---------------------------------------------------------------------------
(* The process: startServer, then POST /cities/:id/save and                *)
(* POST /auth/register handled side by side.  Every request is by the same *)
(* user for the same city, or with the same email; a handler runs one      *)
(* awaited statement per step, and other handlers run between its steps.   *)

ServerInit ==
  /\ req = NoRequest
  /\ resp = NoResponse
  /\ saved_cities = {}
  /\ call = NoCall
  /\ returned = JsUndefined
  /\ boot = Booting
  /\ \E u \in BOOLEAN : db = NoRows(u)
  /\ handlers = NoHandlers

AwaitTestConnection ==
  /\ boot.pc = "testConnection"
  /\ \E ok \in BOOLEAN : boot' = testConnection(boot, ok)
  /\ UNCHANGED <<req, resp, saved_cities, call, returned, db, handlers>>

AwaitInitializeDatabase ==
  /\ boot.pc = "initializeDatabase"
  /\ \E ok \in BOOLEAN : boot' = initializeDatabase(boot, ok)
  /\ UNCHANGED <<req, resp, saved_cities, call, returned, db, handlers>>

\* app.listen(PORT, ..)
Listen ==
  /\ boot.pc = "listen"
  /\ boot' = [boot EXCEPT !.pc = "listening", !.done = Append(@, "listen")]
  /\ UNCHANGED <<req, resp, saved_cities, call, returned, db, handlers>>

\* a request reaches its route, with a valid token and an existing city
\* (save) or a body that passes validation (register)
Arrive(i) ==
  /\ boot.pc = "listening"
  /\ handlers[i].route = "none"
  /\ i > 1 => handlers[i - 1].route # "none"
  /\ \E route \in {"save", "register"} :
        handlers' = [handlers EXCEPT ![i] = [NoHandler EXCEPT !.route = route, !.pc = "select"]]
  /\ UNCHANGED <<req, resp, saved_cities, call, returned, boot, db>>

\* SELECT 1 FROM saved_cities WHERE user_id = ? AND city_id = ?
SaveSelect(i) ==
  /\ handlers[i].route = "save" /\ handlers[i].pc = "select"
  /\ handlers' = [handlers EXCEPT ![i].found = db.saved > 0, ![i].pc = "write"]
  /\ UNCHANGED <<req, resp, saved_cities, call, returned, boot, db>>

\* the DELETE or the INSERT, and the response.  An INSERT of a row that is
\* there is refused under a unique key, which ends in the catch.
SaveWrite(i) ==
  /\ handlers[i].route = "save" /\ handlers[i].pc = "write"
  /\ IF handlers[i].found
       THEN /\ db' = [db EXCEPT !.saved = 0]
            /\ handlers' = [handlers EXCEPT ![i].pc = "done", ![i].status = 200,
                                            ![i].is_saved = FALSE, ![i].wrote = TRUE,
                                            ![i].stored = db'.saved > 0]
     ELSE IF db.savedUnique /\ db.saved > 0
       THEN /\ db' = db
            /\ handlers' = [handlers EXCEPT ![i].pc = "done", ![i].status = 500,
                                            ![i].stored = db.saved > 0]
     ELSE /\ db' = [db EXCEPT !.saved = @ + 1]
          /\ handlers' = [handlers EXCEPT ![i].pc = "done", ![i].status = 200,
                                          ![i].is_saved = TRUE, ![i].wrote = TRUE,
                                          ![i].stored = db'.saved > 0]
  /\ UNCHANGED <<req, resp, saved_cities, call, returned, boot>>

\* SELECT id FROM users WHERE email = ?, and the 409 when a row came back
RegisterSelect(i) ==
  /\ handlers[i].route = "register" /\ handlers[i].pc = "select"
  /\ handlers' = IF db.users # {}
                   THEN [handlers EXCEPT ![i].found = TRUE, ![i].pc = "done", ![i].status = 409]
                   ELSE [handlers EXCEPT ![i].pc = "insert"]
  /\ UNCHANGED <<req, resp, saved_cities, call, returned, boot, db>>

\* hashPassword, the INSERT INTO users, generateToken, the SELECT of the new
\* row and the 201; the hash and the last SELECT touch no shared row, so
\* they are taken with the INSERT.  users.email is UNIQUE: the INSERT of an
\* email that is there is refused, which ends in the catch.
RegisterInsert(i) ==
  /\ handlers[i].route = "register" /\ handlers[i].pc = "insert"
  /\ IF db.users # {}
       THEN /\ db' = db
            /\ handlers' = [handlers EXCEPT ![i].pc = "done", ![i].status = 500]
       ELSE /\ db' = [db EXCEPT !.users = @ \cup {i}]
            /\ handlers' = [handlers EXCEPT ![i].pc = "done", ![i].status = 201,
                                            ![i].token = TRUE, ![i].wrote = TRUE]
  /\ UNCHANGED <<req, resp, saved_cities, call, returned, boot>>

ServerNext ==
  \/ AwaitTestConnection
  \/ AwaitInitializeDatabase
  \/ Listen
  \/ \E i \in 1..MaxRequests : Arrive(i)
  \/ \E i \in 1..MaxRequests : SaveSelect(i)
  \/ \E i \in 1..MaxRequests : SaveWrite(i)
  \/ \E i \in 1..MaxRequests : RegisterSelect(i)
  \/ \E i \in 1..MaxRequests : RegisterInsert(i)

ServerSpec == ServerInit /\ [][ServerNext]_vars

---------------------------------------------------------------------------
(* Properties of the responses *)

Ok == resp.status = 200

ListOk == req.route = "list" /\ Ok

PageIndex == 1..Len(resp.cities)

\* the ml_enhanced field of a record: "true", "false" or "absent"
Flag(c) ==
  IF ~Has(c, "ml_enhanced") THEN "absent" ELSE IF c.ml_enhanced THEN "true" ELSE "false"

\* the probe failed, or the fetch or the handling of its reply threw
EnrichmentFailed == req.ml.health # "2xx" \/ req.ml.fetch \in {"throw", "nodata"}

\* the probe succeeded and the prediction service answered with predictions
EnhancedPath == req.ml.health = "2xx" /\ req.ml.fetch = "ok" /\ req.ml.data # <<>>

ExplicitSort == req.q.sort_by # Undefined \/ req.q.sort_order # Undefined

\* s is in the order of field f, direction dir
OrderedBy(s, f, dir) ==
  /\ \A i \in 1..Len(s) : Has(s[i], f)
  /\ \A i, j \in 1..Len(s) : i < j => ~RowBefore(s[j], s[i], f, dir)

\* C1: a 200 response of GET /cities never mixes ml_enhanced=true and
\* ml_enhanced=false records on one page.
C1_NoMixedPage ==
  ListOk => ~\E i, j \in PageIndex :
               Flag(resp.cities[i]) = "true" /\ Flag(resp.cities[j]) = "false"

\* C2: when the probe fails or the fetch or merge throws, GET /cities still
\* answers 200 and every record has predicted_score=0 and ml_enhanced=false.
C2_DegradedUniform ==
  (req.route = "list" /\ req.dbFail = "none" /\ EnrichmentFailed) =>
     /\ Ok
     /\ \A i \in PageIndex : /\ Has(resp.cities[i], "predicted_score")
                              /\ resp.cities[i].predicted_score = 0
                              /\ Flag(resp.cities[i]) = "false"

\* C3: a prediction service failure never fails a cities request whose
\* record-store calls succeed, GET /cities/personalized included.
C3_PredictionFailureNotSurfaced ==
  (/\ req.route \in {"list", "personalized"}
   /\ req.route = "personalized" => req.token \in Users
   /\ req.dbFail = "none"
   /\ (req.ml.health # "2xx" \/ req.ml.fetch = "throw")) => Ok

\* C4: with an explicit sort_by and/or sort_order, the enhanced page of
\* GET /cities is in the requested field and direction.
C4_ExplicitSortKept ==
  (ListOk /\ EnhancedPath /\ ExplicitSort) =>
     OrderedBy(resp.cities, SortField(req.q), SortOrder(req.q))

C6_FieldsPresent ==
  ListOk => \A i \in PageIndex :
              Has(resp.cities[i], "predicted_score") /\ Has(resp.cities[i], "ml_enhanced")

\* C7: for every raw page and limit, GET /cities hands the record store
\* page >= 1, 1 <= limit <= 100 and offset = (page-1)*limit >= 0, and never
\* answers 400 'Invalid pagination parameters'.
C7_ListPaginationResolved ==
  req.route = "list" =>
     /\ resp.status # 400
     /\ resp.store.queried =>
          /\ resp.store.page >= 1
          /\ resp.store.limit >= 1 /\ resp.store.limit <= 100
          /\ resp.store.offset = (resp.store.page - 1) * resp.store.limit
          /\ resp.store.offset >= 0

\* a negative page and a limit over the maximum reached the record store as
\* page 1, limit 100; and a later page as a positive offset
C7_Witness ==
  /\ req.route = "list" /\ resp.store.queried
  /\ \/ /\ req.q.page = Num(-1) /\ req.q.limit = Num(101)
        /\ resp.store.limit = 100 /\ resp.store.offset = 0
     \/ /\ req.q.page = Num(2) /\ req.q.limit = NonNumeric
        /\ resp.store.offset = 20

\* C8: a zero or negative page resolves to page 1 and a zero or negative
\* limit to the default limit 20, in paginateResults and in GET /cities.
C8_NonPositiveToDefaults ==
  (/\ req.route \in {"list", "paginateResults"}
   /\ req.q.page \in {Num(0), Num(-1)}
   /\ req.q.limit \in {Num(0), Num(-5)}
   /\ resp.store.queried) =>
     /\ resp.store.limit = 20
     /\ resp.store.offset = 0
     /\ req.route = "list" => resp.store.page = 1

\* C9: on /filter, /search, /country and /personalized the limit handed to
\* the data source is in [1, maxLimit], the page is >= 1 and the offset is
\* not negative.
C9_OtherRoutesResolved ==
  (req.route \in {"filter", "search", "country", "personalized"} /\ resp.store.queried) =>
     /\ resp.store.limit >= 1 /\ resp.store.limit <= 200
     /\ resp.store.page >= 1
     /\ resp.store.offset >= 0

\* C10: the pagination block of a 200 response of the list, filter, search,
\* country and saved routes has total_pages = ceil(total_items /
\* items_per_page), has_next_page iff current_page < total_pages,
\* has_prev_page iff current_page > 1, and the offset used is
\* (current_page-1)*items_per_page.
C10_PaginationBlock ==
  (req.route \in {"list", "filter", "search", "country", "saved"} /\ Ok) =>
     LET pg == resp.pagination
     IN /\ pg.items_per_page >= 1
        /\ pg.total_pages * pg.items_per_page >= pg.total_items
        /\ (pg.total_pages - 1) * pg.items_per_page < pg.total_items
        /\ pg.total_items = 0 => pg.total_pages = 0
        /\ pg.has_next_page <=> pg.current_page < pg.total_pages
        /\ pg.has_prev_page <=> pg.current_page > 1
        /\ resp.store.queried =>
             resp.store.offset = (pg.current_page - 1) * pg.items_per_page

\* C15: the pagination block of a 200 response of GET /cities/personalized
\* carries current_page, total_pages, has_next_page, has_prev_page and the
\* total as the prediction service returned them for the call.
C15_PersonalizedPassthrough ==
  (req.route = "personalized" /\ Ok) =>
     /\ resp.pagination.current_page = req.ml.pagination.current_page
     /\ resp.pagination.total_pages = req.ml.pagination.total_pages
     /\ resp.pagination.has_next_page = req.ml.pagination.has_next_page
     /\ resp.pagination.has_prev_page = req.ml.pagination.has_prev_page
     /\ resp.pagination.total_items = req.ml.total

\* the service's block fits neither the request (no page asked for) nor the
\* total it reports: one page, nine items, two per page
C15_Witness ==
  /\ req.route = "personalized" /\ Ok
  /\ req.q.page = Missing
  /\ req.ml.total = 9 /\ req.ml.limit = 2
  /\ resp.pagination.total_pages = 1
  /\ resp.pagination.total_items = 9
  /\ Len(resp.cities) = 2

Count(calls, x) == Cardinality({i \in 1..Len(calls) : calls[i] = x})

\* C17: one GET /cities request probes at most once and fetches predictions
\* at most once, fetches only after a probe that returned true, and makes no
\* probe or prediction call after a failed probe or a failed fetch.
C17_OneShot ==
  req.route = "list" =>
     /\ Count(resp.calls, "probe") <= 1
     /\ Count(resp.calls, "predict") <= 1
     /\ \A i \in 1..Len(resp.calls) :
          resp.calls[i] = "predict" =>
             /\ req.ml.health = "2xx"
             /\ \E j \in 1..(i - 1) : resp.calls[j] = "probe"
             /\ \A j \in (i + 1)..Len(resp.calls) : resp.calls[j] \notin {"probe", "predict"}
     /\ req.ml.health # "2xx" =>
          \A i, j \in 1..Len(resp.calls) :
             (resp.calls[i] = "probe" /\ i < j) => resp.calls[j] \notin {"probe", "predict"}

\* the probe succeeded and the one fetch was rejected: the merge router
\* answers from the record store
C17_Witness ==
  /\ ListOk /\ req.variant = "merge"
  /\ req.ml.health = "2xx" /\ req.ml.fetch = "throw"
  /\ resp.calls = <<"count", "cities", "probe", "predict">>

\* C18: in one GET /cities request the probe and the record-store fetch of
\* the page are in flight together: each is issued before the other has
\* completed.
C18_ProbeConcurrentWithFetch ==
  req.route = "list" =>
     \A i, j \in 1..Len(resp.calls) :
        (resp.calls[i] = "probe" /\ resp.calls[j] = "cities") =>
           IssuedAt(i) < CompletedAt(j) /\ IssuedAt(j) < CompletedAt(i)

\* the caller of a listing route is authenticated
Authenticated ==
  \/ req.route \in {"list", "filter", "search", "country"} /\ req.user # "none"
  \/ req.route = "personalized" /\ req.token \in Users

\* the cities of s, each named by its name and country
NamedIn(s) == {<<s[i].name, s[i].country>> : i \in 1..Len(s)}

\* C26: on every path of GET /cities the page holds exactly the records at
\* the positions offset .. offset+limit-1 of the filtered, sorted record
\* store, in some order; so every returned record passes the filters and
\* two different pages do not share records.
C26_PageOfFilteredStore ==
  ListOk =>
    LET lim == resp.pagination.items_per_page
        off == (resp.pagination.current_page - 1) * lim
    IN NamedIn(resp.cities) =
         NamedIn(SelectCities(FilteredCities(req.q), SortField(req.q), SortOrder(req.q),
                              lim, off))

\* the user the saved-status lookups of the request are made for
Caller == IF req.route = "personalized" THEN req.token ELSE req.user

\* C23: for an authenticated request to a cities listing route each returned
\* record carries is_saved, true exactly when saved_cities holds the row
\* (user, record id), on the enhanced, the degraded and the personalized
\* path alike.
C23_SavedStatus ==
  (Authenticated /\ Ok) =>
     \A i \in PageIndex :
        /\ Has(resp.cities[i], "is_saved") /\ Has(resp.cities[i], "id")
        /\ resp.cities[i].is_saved <=> <<Caller, resp.cities[i].id>> \in saved_cities

\* the prediction service's records are returned as the page, one of them
\* saved by the caller and one saved by somebody else only
C23_Witness ==
  /\ Authenticated /\ Ok /\ req.route = "list" /\ req.variant = "direct"
  /\ EnhancedPath /\ Len(resp.cities) = 2
  /\ \E i, j \in PageIndex :
        /\ resp.cities[i].ml_enhanced /\ resp.cities[i].is_saved
        /\ ~resp.cities[j].is_saved
        /\ \E u \in {"u2"} : <<u, resp.cities[j].id>> \in saved_cities

\* C19: an authenticated request to a cities listing route makes at most one
\* lookup against saved_cities, whatever the number of records on the page.
C19_OneSavedLookup ==
  Authenticated => Count(resp.calls, "saved") <= 1

\* C20: when a record-store call of GET /cities fails (count query, cities
\* query or a saved-status lookup), the request ends with status 500 and the
\* error envelope, one response is sent and it carries no records.
C20_StoreFailureIs500 ==
  (/\ req.route = "list"
   /\ req.dbFail \in {"count", "cities", "saved"}
   /\ \E i \in 1..Len(resp.calls) : resp.calls[i] = req.dbFail) =>
     /\ resp.status = 500
     /\ ~resp.success
     /\ resp.error = [code |-> 500, message |-> resp.message]
     /\ resp.cities = <<>>
     /\ resp.sent = 1

\* a saved-status lookup failed after the count, the page and the
\* predictions had been fetched
C20_Witness ==
  /\ req.route = "list" /\ req.dbFail = "saved" /\ req.user \in Users
  /\ req.ml.health = "2xx" /\ req.ml.fetch = "ok"
  /\ resp.calls = <<"count", "cities", "probe", "predict", "saved">>
  /\ resp.status = 500

\* C21: on GET /cities and GET /cities/filter a sort_by outside the
\* allow-list makes the record store order by name ascending, whatever
\* sort_order came with it (seen on the pages that come from the record
\* store in its order).
C21_UnknownSortIsNameAsc ==
  (/\ req.route \in {"list", "filter"} /\ Ok
   /\ resp.store.queried
   /\ SortByOf(req.q) \notin allowedSortFields) =>
     OrderedBy(resp.cities, "name", "ASC")

---------------------------------------------------------------------------
(* Properties of mergeCityData and isAvailable *)

\* mergeCityData was called with two arrays
MergeCall ==
  call.fn = "mergeCityData" /\ IsArray(call.dbCities) /\ IsArray(call.mlCities)

LetterPairs == {<<"A", "a">>, <<"B", "b">>, <<"C", "c">>, <<"P", "p">>, <<"T", "t">>}

SameLetter(a, b) == a = b \/ <<a, b>> \in LetterPairs \/ <<b, a>> \in LetterPairs

EqualUpToCase(s, t) ==
  Len(s) = Len(t) /\ \A i \in 1..Len(s) : SameLetter(s[i], t[i])

\* prediction p is for record r: same name and country up to letter case
PredictionFor(r, p) ==
  /\ {"name", "country"} \subseteq DOMAIN r \cap DOMAIN p
  /\ EqualUpToCase(r.name, p.name) /\ EqualUpToCase(r.country, p.country)

\* c has a name and a country, neither containing '_'
PlainNamed(c) ==
  /\ {"name", "country"} \subseteq DOMAIN c
  /\ \A k \in 1..Len(c.name) : c.name[k] # "_"
  /\ \A k \in 1..Len(c.country) : c.country[k] # "_"

\* C11: a record and a prediction whose names and whose countries are equal
\* up to letter case match: the merged record has ml_enhanced=true and that
\* prediction's predicted_score (of several predictions for the record, the
\* last one's).
C11_CaseInsensitiveMatch ==
  MergeCall =>
    LET R == call.dbCities.v
        P == call.mlCities.v
    IN \A i \in 1..Len(R), j \in 1..Len(P) :
         PredictionFor(R[i], P[j]) =>
           /\ i <= Len(returned.v)
           /\ Flag(returned.v[i]) = "true"
           /\ (\A k \in (j + 1)..Len(P) : ~PredictionFor(R[i], P[k]))
                 => returned.v[i].predicted_score = P[j].predicted_score

\* the record A/P merged with the one prediction a/p
C11_Witness ==
  /\ MergeCall
  /\ call.dbCities.v = <<Cities[1]>>
  /\ call.mlCities.v = <<[name |-> <<"a">>, country |-> <<"p">>, predicted_score |-> MaxScore]>>
  /\ returned.v[1].ml_enhanced
  /\ returned.v[1].predicted_score = MaxScore

Range(s) == {s[i] : i \in 1..Len(s)}

Shuffles(s) ==
  {[i \in 1..Len(s) |-> s[f[i]]] :
     f \in {g \in [1..Len(s) -> 1..Len(s)] : \A a, b \in 1..Len(s) : g[a] = g[b] => a = b}}

\* C12: mergeCityData(R, P) called again gives an equal result, and called
\* with any permutation of P gives the same set of enriched records.
C12_MergeOrderIndependent ==
  MergeCall =>
    /\ mergeCityData(call.dbCities, call.mlCities) = returned
    /\ \A p \in Shuffles(call.mlCities.v) :
         Range(mergeCityData(call.dbCities, Arr(p)).v) = Range(returned.v)

\* C13: mergeCityData returns one record per input record, in the input
\* order, every original field unchanged and predicted_score and ml_enhanced
\* added; a record without a prediction gets predicted_score=0 and
\* ml_enhanced=false; the caller's records are as they were.
C13_MergeFrame ==
  MergeCall =>
    LET R == call.dbCities.v
        P == call.mlCities.v
    IN /\ Len(returned.v) = Len(R)
       /\ \A i \in 1..Len(R) :
            /\ i <= Len(returned.v)
            /\ DOMAIN returned.v[i] = DOMAIN R[i] \cup {"predicted_score", "ml_enhanced"}
            /\ \A f \in DOMAIN R[i] : returned.v[i][f] = R[i][f]
            /\ (/\ PlainNamed(R[i])
                /\ \A j \in 1..Len(P) : PlainNamed(P[j]) /\ ~PredictionFor(R[i], P[j]))
                  => returned.v[i].predicted_score = 0 /\ Flag(returned.v[i]) = "false"
            /\ ~Has(R[i], "predicted_score") /\ ~Has(R[i], "ml_enhanced")

\* two records, the second one with a prediction, the first one without
C13_Witness ==
  /\ MergeCall
  /\ call.dbCities.v = <<Cities[1], Cities[2]>>
  /\ Len(call.mlCities.v) = 1
  /\ Len(returned.v) = 2
  /\ returned.v[1].id = 1 /\ Flag(returned.v[1]) = "false" /\ returned.v[1].predicted_score = 0
  /\ returned.v[2].id = 2 /\ Flag(returned.v[2]) = "true"

C16_IsAvailableBoolean ==
  call.fn = "isAvailable" =>
     /\ returned.k = "boolean"
     /\ returned.v \in BOOLEAN
     /\ returned.v <=> call.ml.health = "2xx"

\* the health request was answered with an error status
C16_Witness ==
  call.fn = "isAvailable" /\ call.ml.health = "non2xx" /\ returned = JsBoolean(FALSE)

\* C22: every failure response (of a route handler through errorResponse,
\* of the authentication middleware, of the 404 handler and of the global
\* error handler) has the body {success: false, message, error: {code,
\* message}} and a status equal to error.code.
C22_FailureEnvelope ==
  (/\ call.fn \in {"authenticateToken", "optionalAuth", "notFoundHandler",
                   "globalErrorHandler", "errorResponse"}
   /\ returned.sent > 0 /\ returned.status >= 400) =>
     /\ DOMAIN returned.body = {"success", "message", "error"}
     /\ returned.body.success = FALSE
     /\ {"code", "message"} \subseteq DOMAIN returned.body.error
     /\ returned.body.error.code = returned.status

\* the first argument of the call is missing: an empty or whitespace-only
\* query or country, preferences that are no object
MissingArgument ==
  /\ call.fn \in {"searchCities", "getCitiesByCountry", "getPersonalizedCities"}
  /\ IF call.fn = "getPersonalizedCities"
       THEN call.arg.k \notin {"object", "array"}
       ELSE call.arg.k \in {"undefined", "null"}
            \/ (call.arg.k = "string" /\ call.arg.v \in {<<>>, <<" ">>})

\* C24: searchCities, getCitiesByCountry and getPersonalizedCities reject a
\* missing argument without sending a request to the prediction service,
\* and the error they reject with has a status of the 400 class.
C24_MissingArgumentIs400 ==
  MissingArgument =>
     /\ returned.threw /\ returned.requests = 0
     /\ returned.statusCode \in 400..499

\* the token verifies for an existing user and the users query succeeds
TokenAccepted == call.token \in Users /\ call.dbFail = "none"

\* C29: authenticateToken calls next() or sends one response, never both:
\* next(), with req.user set, only for a token that verifies for an existing
\* user, otherwise a 401 or a 500; optionalAuth calls next() once and sets
\* req.user under the same condition only.
C29_NextOrRespond ==
  /\ call.fn = "authenticateToken" =>
       /\ returned.next + returned.sent = 1
       /\ returned.next = 1 <=> TokenAccepted
       /\ returned.next = 1 => returned.user = call.token
       /\ returned.sent = 1 => returned.status \in {401, 500} /\ returned.user = "none"
  /\ call.fn = "optionalAuth" =>
       /\ returned.next = 1 /\ returned.sent = 0
       /\ returned.user # "none" <=> TokenAccepted
       /\ returned.user # "none" => returned.user = call.token

\* a token that verifies for a user who is gone: authenticateToken answers
\* 401 and does not call next()
C29_Witness ==
  /\ call.fn = "authenticateToken" /\ call.token = "ghost" /\ call.dbFail = "none"
  /\ returned.next = 0 /\ returned.sent = 1 /\ returned.status = 401

\* field f of c in lower case, or the mark of a field that is missing
LowerCased(c, f) == IF Has(c, f) THEN <<"text", toLowerCase(c[f])>> ELSE <<"missing">>

\* C25: mergeCityData gives a record a prediction's score and
\* ml_enhanced=true only if the prediction's lowercased name and lowercased
\* country equal the record's, also for names and countries that contain
\* '_' and for missing ones.
C25_NoFalseMatch ==
  MergeCall =>
    LET R == call.dbCities.v
        P == call.mlCities.v
    IN \A i \in 1..Len(R) :
         Flag(returned.v[i]) = "true" =>
           \E j \in 1..Len(P) :
              /\ LowerCased(P[j], "name") = LowerCased(R[i], "name")
              /\ LowerCased(P[j], "country") = LowerCased(R[i], "country")
              /\ returned.v[i].predicted_score = P[j].predicted_score

---------------------------------------------------------------------------
(* Properties of the process *)

Saves == {i \in 1..MaxRequests : handlers[i].route = "save"}

Registers == {i \in 1..MaxRequests : handlers[i].route = "register"}

\* C27: under any interleaving of toggle requests by one user for one city
\* saved_cities holds at most one row for them, every request that has
\* ended got a success response, and the is_saved a request returned is the
\* stored state right after its write.
C27_ToggleAtomic ==
  /\ db.saved <= 1
  /\ \A i \in Saves : handlers[i].pc = "done" =>
        /\ handlers[i].status = 200
        /\ handlers[i].is_saved = handlers[i].stored

\* C28: listen is called only after testConnection and then
\* initializeDatabase completed; when one of them fails the process exits
\* with code 1 and listen is never called.
C28_ListenAfterDatabase ==
  /\ "listen" \in Range(boot.done) =>
        boot.done = <<"testConnection", "initializeDatabase", "listen">>
  /\ boot.pc \in {"listen", "listening"} =>
        /\ Len(boot.done) >= 2
        /\ boot.done[1] = "testConnection" /\ boot.done[2] = "initializeDatabase"
  /\ handlers # NoHandlers => boot.pc = "listening"
  /\ boot.failed # {} =>
        /\ boot.exited /\ boot.exitCode = 1 /\ boot.pc = "exited"
        /\ "listen" \notin Range(boot.done)
  /\ boot.exited => boot.failed # {} /\ handlers = NoHandlers

\* the server listens and has answered a request
C28_Witness ==
  /\ boot.pc = "listening" /\ boot.failed = {}
  /\ \E i \in 1..MaxRequests : handlers[i].pc = "done"

\* C30: under any interleaving of register requests with one email at most
\* one row of users is written, at most one request gets 201 (and it gets
\* the token), and every other request that has ended got 409 and wrote
\* nothing.
C30_RegisterOnce ==
  /\ Cardinality(db.users) <= 1
  /\ Cardinality({i \in Registers : handlers[i].status = 201}) <= 1
  /\ \A i \in Registers : handlers[i].pc = "done" =>
        \/ handlers[i].status = 201 /\ handlers[i].token
        \/ handlers[i].status = 409 /\ ~handlers[i].wrote

====
